---- MODULE Spec2Model ----
(***************************************************************************)
(* Model of the two-tier agent orchestration service:                      *)
(*   backend/orchestrator.py  (the Dispatcher)                             *)
(*   frontend/app.py          (the Relay)                                  *)
(***************************************************************************)
EXTENDS Integers, Sequences, FiniteSets, TLC

(***************************************************************************)
(* Bounds of the model                                                     *)
(***************************************************************************)
\* largest worker count a modelled run is started with
MaxWorkers == 2
\* most text events a worker's runtime yields before it ends or terminates
MaxMessages == 2
\* largest worker count of each of two runs that are followed side by side
MaxConcurrent == 1

(***************************************************************************)
(* Program constants                                                       *)
(***************************************************************************)
MinAgentCount == 1
MaxAgentCount == 10

(***************************************************************************)
(* Python values that reach the handlers in the JSON body                  *)
(***************************************************************************)
\* A character string is a sequence of one-character strings.
Spaces == {" "}

DigitVal == [c \in {"0", "1", "2", "3", "4", "5", "6", "7", "8", "9"} |->
               CASE c = "0" -> 0 [] c = "1" -> 1 [] c = "2" -> 2 [] c = "3" -> 3
                 [] c = "4" -> 4 [] c = "5" -> 5 [] c = "6" -> 6 [] c = "7" -> 7
                 [] c = "8" -> 8 [] c = "9" -> 9]

RECURSIVE LStrip(_)
LStrip(s) == IF s # <<>> /\ Head(s) \in Spaces THEN LStrip(Tail(s)) ELSE s

RECURSIVE RStrip(_)
RStrip(s) == IF s # <<>> /\ s[Len(s)] \in Spaces
             THEN RStrip(SubSeq(s, 1, Len(s) - 1)) ELSE s

\* str.strip()
Strip(s) == RStrip(LStrip(s))

RECURSIVE DigitsToInt(_)
DigitsToInt(s) == IF s = <<>> THEN 0
                  ELSE DigitsToInt(SubSeq(s, 1, Len(s) - 1)) * 10 + DigitVal[s[Len(s)]]

\* a JSON value: kind k, number n (an int, or a float counted in halves), text s
Val(k, n, s) == [k |-> k, n |-> n, s |-> s]
IntV(n)   == Val("int", n, <<>>)
FloatV(h) == Val("float", h, <<>>)
StrV(s)   == Val("str", 0, s)
BoolV(b)  == Val("bool", IF b THEN 1 ELSE 0, <<>>)
NullV     == Val("null", 0, <<>>)
ListV     == Val("list", 0, <<>>)
InfV      == Val("inf", 0, <<>>)
NanV      == Val("nan", 0, <<>>)
Missing   == Val("missing", 0, <<>>)

\* the outcome of evaluating an expression: a value or a raised exception
Ok(v)      == [exc |-> "none", v |-> v]
Raise(e)   == [exc |-> e, v |-> 0]

\* int(str): surrounding whitespace is dropped, an optional sign, then digits
StrToInt(s) ==
    LET t    == Strip(s)
        neg  == t # <<>> /\ Head(t) = "-"
        body == IF t # <<>> /\ Head(t) \in {"-", "+"} THEN Tail(t) ELSE t
    IN  IF body # <<>> /\ \A i \in 1..Len(body) : body[i] \in DOMAIN DigitVal
        THEN Ok(IF neg THEN 0 - DigitsToInt(body) ELSE DigitsToInt(body))
        ELSE Raise("ValueError")

\* int(float): truncation toward zero (n counts halves)
FloatToInt(h) == IF h >= 0 THEN h \div 2 ELSE 0 - ((0 - h) \div 2)

\* int(x)
PyInt(x) ==
    CASE x.k = "int"   -> Ok(x.n)
      [] x.k = "bool"  -> Ok(x.n)
      [] x.k = "float" -> Ok(FloatToInt(x.n))
      [] x.k = "inf"   -> Raise("OverflowError")
      [] x.k = "nan"   -> Raise("ValueError")
      [] x.k = "str"   -> StrToInt(x.s)
      [] OTHER         -> Raise("TypeError")

\* the request body as request.get_json() returns it
Body(k, p, c) == [k |-> k, prompt |-> p, agent_count |-> c]
\* bool(data)
Truthy(data) == data.k \in {"dict", "list"}

\* dict.get(key, default)
DictGet(v, default) == IF v.k = "missing" THEN default ELSE v

(***************************************************************************)
(* Input validation, as each of the four handlers writes it out            *)
(***************************************************************************)
Reject(code, msg)  == [status |-> code, error |-> msg, prompt |-> <<>>, agent_count |-> 0]
Accept(p, n)       == [status |-> 0, error |-> "", prompt |-> p, agent_count |-> n]
\* an exception no handler catches: the framework answers 500
Unhandled(e)       == Reject(500, e)

orchestrate_validate(data) ==
    IF ~Truthy(data) THEN Reject(400, "No data provided")
    ELSE IF data.k # "dict" THEN Unhandled("AttributeError")
    ELSE LET p == DictGet(data.prompt, StrV(<<>>))
             c == DictGet(data.agent_count, IntV(1))
         IN  IF p.k # "str" THEN Unhandled("AttributeError")
             ELSE IF Strip(p.s) = <<>> THEN Reject(400, "Prompt is required")
             ELSE LET n == PyInt(c)
                  IN  IF n.exc \in {"ValueError", "TypeError"}
                      THEN Reject(400, "Invalid agent count")
                      ELSE IF n.exc # "none" THEN Unhandled(n.exc)
                      ELSE IF n.v < MinAgentCount \/ n.v > MaxAgentCount
                      THEN Reject(400, "Agent count must be between 1 and 10")
                      ELSE Accept(Strip(p.s), n.v)

orchestrate_stream_validate(data) ==
    IF ~Truthy(data) THEN Reject(400, "No data provided")
    ELSE IF data.k # "dict" THEN Unhandled("AttributeError")
    ELSE LET p == DictGet(data.prompt, StrV(<<>>))
             c == DictGet(data.agent_count, IntV(1))
         IN  IF p.k # "str" THEN Unhandled("AttributeError")
             ELSE IF Strip(p.s) = <<>> THEN Reject(400, "Prompt is required")
             ELSE LET n == PyInt(c)
                  IN  IF n.exc \in {"ValueError", "TypeError"}
                      THEN Reject(400, "Invalid agent count")
                      ELSE IF n.exc # "none" THEN Unhandled(n.exc)
                      ELSE IF n.v < MinAgentCount \/ n.v > MaxAgentCount
                      THEN Reject(400, "Agent count must be between 1 and 10")
                      ELSE Accept(Strip(p.s), n.v)

\* the prompt is checked stripped but kept as sent
submit_prompt_validate_mutant(data) ==
    IF ~Truthy(data) THEN Reject(400, "No data provided")
    ELSE IF data.k # "dict" THEN Unhandled("AttributeError")
    ELSE LET p == DictGet(data.prompt, StrV(<<>>))
             c == DictGet(data.agent_count, IntV(1))
         IN  IF p.k # "str" THEN Unhandled("AttributeError")
             ELSE IF Strip(p.s) = <<>> THEN Reject(400, "Prompt is required")
             ELSE LET n == PyInt(c)
                  IN  IF n.exc \in {"ValueError", "TypeError"}
                      THEN Reject(400, "Invalid agent count")
                      ELSE IF n.exc # "none" THEN Unhandled(n.exc)
                      ELSE IF n.v < MinAgentCount \/ n.v > MaxAgentCount
                      THEN Reject(400, "Agent count must be between 1 and 10")
                      ELSE Accept(p.s, n.v)

submit_prompt_validate(data) ==
    IF ~Truthy(data) THEN Reject(400, "No data provided")
    ELSE IF data.k # "dict" THEN Unhandled("AttributeError")
    ELSE LET p == DictGet(data.prompt, StrV(<<>>))
             c == DictGet(data.agent_count, IntV(1))
         IN  IF p.k # "str" THEN Unhandled("AttributeError")
             ELSE IF Strip(p.s) = <<>> THEN Reject(400, "Prompt is required")
             ELSE LET n == PyInt(c)
                  IN  IF n.exc \in {"ValueError", "TypeError"}
                      THEN Reject(400, "Invalid agent count")
                      ELSE IF n.exc # "none" THEN Unhandled(n.exc)
                      ELSE IF n.v < MinAgentCount \/ n.v > MaxAgentCount
                      THEN Reject(400, "Agent count must be between 1 and 10")
                      ELSE Accept(Strip(p.s), n.v)

submit_prompt_stream_validate(data) ==
    IF ~Truthy(data) THEN Reject(400, "No data provided")
    ELSE IF data.k # "dict" THEN Unhandled("AttributeError")
    ELSE LET p == DictGet(data.prompt, StrV(<<>>))
             c == DictGet(data.agent_count, IntV(1))
         IN  IF p.k # "str" THEN Unhandled("AttributeError")
             ELSE IF Strip(p.s) = <<>> THEN Reject(400, "Prompt is required")
             ELSE LET n == PyInt(c)
                  IN  IF n.exc \in {"ValueError", "TypeError"}
                      THEN Reject(400, "Invalid agent count")
                      ELSE IF n.exc # "none" THEN Unhandled(n.exc)
                      ELSE IF n.v < MinAgentCount \/ n.v > MaxAgentCount
                      THEN Reject(400, "Agent count must be between 1 and 10")
                      ELSE Accept(Strip(p.s), n.v)

(***************************************************************************)
(* Inputs                                                                  *)
(***************************************************************************)
PromptVals == {Missing, NullV, StrV(<<>>), StrV(<<" ">>), StrV(<<"a">>), StrV(<<" ", "a">>)}

CountVals ==
    {Missing, NullV, ListV, InfV, NanV, BoolV(TRUE), BoolV(FALSE)}
    \cup {IntV(n) : n \in {-1, 0, 11} \cup 1..MaxWorkers}
    \cup {FloatV(h) : h \in {1, 5, 23}}
    \cup {StrV(s) : s \in {<<>>, <<"2">>, <<"2", ".", "5">>, <<"1", "1">>, <<"x">>}}

\* every prompt with a few counts, and every count with the plain prompt
Bodies ==
    {Body("none", Missing, Missing), Body("emptydict", Missing, Missing),
     Body("list", Missing, Missing)}
    \cup {Body("dict", p, c) : p \in PromptVals, c \in {Missing, IntV(0), IntV(1), NullV}}
    \cup {Body("dict", StrV(<<"a">>), c) : c \in CountVals}

\* events of the agent runtime (claude_agent_sdk.query)
Payloads   == {"p"}
\* the texts of a worker's event stream, in the order the runtime yields them
TextStream == <<"t1", "t2", "t3", "t4">>
Texts      == {TextStream[k] : k \in 1..MaxMessages}
Subtypes   == {"success", "error", "error_max_turns"}
ExcTypes   == {"RuntimeError"}
ResultMessage(st, p) == [kind |-> "ResultMessage", subtype |-> st, result |-> p]
TextMessage(t)       == [kind |-> "TextMessage", subtype |-> "", result |-> t]
Messages == {ResultMessage(st, p) : st \in Subtypes, p \in Payloads}
            \cup {TextMessage(t) : t \in Texts}
\* str(message) of a TextMessage
PyStr(m) == <<m.kind, "(", m.result, ")">>

\* exceptions of the requests library, with the classes each one is an instance of;
\* a ConnectTimeout is raised while connecting, a ReadTimeout once connected, and
\* response.json() raises the JSONDecodeError
RequestExcs == {"ConnectionError", "ConnectTimeout", "ReadTimeout", "JSONDecodeError"}
IsInstance(e, cls) ==
    CASE cls = "Timeout"         -> e \in {"Timeout", "ConnectTimeout", "ReadTimeout"}
      [] cls = "ConnectionError" -> e \in {"ConnectionError", "ConnectTimeout"}
      [] OTHER                   -> TRUE

(***************************************************************************)
(* State                                                                   *)
(***************************************************************************)
VARIABLES
    apiKey,        \* bool(ANTHROPIC_API_KEY)
    req,           \* the client's request: the handler it reached and its body
    rpc,           \* Relay handler: "idle", "calling", "done"
    fwd,           \* body the Relay sent to the Dispatcher
    backendCalls,  \* number of requests.post calls the Relay issued
    relayResp,     \* the Relay's response (status, body)
    relayOut,      \* frames the Relay's generator yielded
    relayRead,     \* number of Dispatcher lines the Relay has read
    relayFault,    \* the exception an except clause of the Relay caught, "" if none
    dpc,           \* Dispatcher handler: "idle", "run", "stream", "done"
    task,          \* the validated prompt and agent_count of the Dispatcher
    dResp,         \* the Dispatcher's response (status, body)
    gpc,           \* Dispatcher generate(): "idle", "begin", "poll", "join", "drain", "complete", "done"
    events,        \* lines generate() yielded
    streamQueue,   \* results_queue of generate()
    completed,     \* completed of generate()
    threadAlive,   \* thread.is_alive()
    opc,           \* orchestrate_agents: "idle", "start", "gather", "done", "failed"
    runQueue,      \* results_queue of orchestrate_agents
    drained,       \* the list as taken from the queue, before the sort
    results,       \* the list orchestrate_agents returned
    workers,       \* the run_single_agent tasks
    otherOpc,      \* a second, concurrent call of orchestrate_agents: as opc
    otherCount,    \* its agent_count
    otherQueue,    \* its results_queue
    otherDrained,  \* its list as taken from the queue, before the sort
    otherResults,  \* the list it returned
    otherWorkers   \* its run_single_agent tasks

relayVars  == <<rpc, fwd, backendCalls, relayResp, relayOut, relayRead, relayFault>>
dispVars   == <<dpc, task, dResp>>
streamVars == <<gpc, events, streamQueue, completed, threadAlive>>
runVars    == <<opc, runQueue, drained, results, workers>>
otherVars  == <<otherOpc, otherCount, otherQueue, otherDrained, otherResults,
                otherWorkers>>
vars == <<apiKey, req, relayVars, dispVars, streamVars, runVars, otherVars>>

Handlers == {"orchestrate", "orchestrate_stream", "submit_prompt", "submit_prompt_stream"}
AgentIds == 1..MaxWorkers

NoBody == Body("none", Missing, Missing)
NoReq  == [handler |-> "none", data |-> NoBody]
NoTask == Accept(<<>>, 0)
\* an HTTP response: status code and the JSON body's fields
Resp(code, st, err, p, n, res) ==
    [code |-> code, status |-> st, error |-> err, prompt |-> p, agent_count |-> n,
     results |-> res]
ErrorResp(code, err) == Resp(code, "", err, <<>>, 0, <<>>)
NoResp == ErrorResp(0, "")

NoResult == [agent_id |-> 0, status |-> "", message |-> <<>>,
             details |-> [key |-> "", value |-> "", messages |-> <<>>]]
\* AgentResult(agent_id, status, message, details); details holds one key
AgentResult(id, st, msg, key, value, msgs) ==
    [agent_id |-> id, status |-> st, message |-> msg,
     details |-> [key |-> key, value |-> value, messages |-> msgs]]

NoMessage == [kind |-> "", subtype |-> "", result |-> ""]
\* a task: where it stands, what it collected, how it ended (on a message, at the
\* end of the events, on an ImportError, on another exception) and what it returned
NoWorker == [pc |-> "none", collected_messages |-> <<>>, ended |-> "",
             message |-> NoMessage, result |-> NoResult]

Init ==
    /\ apiKey \in BOOLEAN
    /\ req = NoReq
    /\ rpc = "idle" /\ fwd = NoBody /\ backendCalls = 0 /\ relayResp = NoResp
    /\ relayOut = <<>> /\ relayRead = 0 /\ relayFault = ""
    /\ dpc = "idle" /\ task = NoTask /\ dResp = NoResp
    /\ gpc = "idle" /\ events = <<>> /\ streamQueue = <<>> /\ completed = 0
    /\ threadAlive = FALSE
    /\ opc = "idle" /\ runQueue = <<>> /\ drained = <<>> /\ results = <<>>
    /\ workers = [i \in AgentIds |-> NoWorker]
    /\ otherOpc = "idle" /\ otherCount = 0 /\ otherQueue = <<>>
    /\ otherDrained = <<>> /\ otherResults = <<>>
    /\ otherWorkers = [i \in AgentIds |-> NoWorker]

(***************************************************************************)
(* Dispatcher: run_single_agent                                            *)
(***************************************************************************)
\* every subtype but success is reported as an error
ResultOfMessageMutant(agent_id, m) ==
    IF m.subtype = "success"
    THEN AgentResult(agent_id, "success", <<"Task completed successfully">>,
                     "result", m.result, <<>>)
    ELSE AgentResult(agent_id, "error", <<"Task failed: ", m.result>>,
                     "error", m.result, <<>>)

\* the result a ResultMessage gives
ResultOfMessage(agent_id, m) ==
    IF m.subtype = "success"
    THEN AgentResult(agent_id, "success", <<"Task completed successfully">>,
                     "result", m.result, <<>>)
    ELSE IF m.subtype = "error"
    THEN AgentResult(agent_id, "error", <<"Task failed: ", m.result>>,
                     "error", m.result, <<>>)
    ELSE AgentResult(agent_id, "unknown", <<m.result>>, "subtype", m.subtype, <<>>)

\* results_queue.put(result); return result
\* (the task's local collected_messages ends with the call)
PutAndReturn(agent_id, ended, m, result) ==
    /\ runQueue' = Append(runQueue, result)
    /\ workers' = [workers EXCEPT ![agent_id] =
                      [pc |-> "done", collected_messages |-> <<>>, ended |-> ended,
                       message |-> m, result |-> result]]

\* the import of the SDK at the top of the task
run_single_agent_import(agent_id) ==
    /\ workers[agent_id].pc = "import"
    /\ \/ workers' = [workers EXCEPT ![agent_id].pc = "query"] /\ UNCHANGED runQueue
       \/ PutAndReturn(agent_id, "ImportError", NoMessage,
              AgentResult(agent_id, "error",
                          <<"Claude Agent SDK not available: ", "ImportError">>,
                          "error_type", "import_error", <<>>))
    /\ UNCHANGED <<opc, drained, results>>

\* the result of a ResultMessage is put, but the loop goes on instead of returning
run_single_agent_message_mutant(agent_id, m) ==
    /\ workers[agent_id].pc = "query"
    /\ IF m.kind = "ResultMessage"
       THEN /\ runQueue' = Append(runQueue, ResultOfMessage(agent_id, m))
            /\ UNCHANGED workers
       ELSE /\ Len(workers[agent_id].collected_messages) < MaxMessages
            /\ workers' = [workers EXCEPT ![agent_id].collected_messages =
                               Append(@, PyStr(m))]
            /\ UNCHANGED runQueue
    /\ UNCHANGED <<opc, drained, results>>

\* one iteration of the async for over query()
run_single_agent_message(agent_id, m) ==
    /\ workers[agent_id].pc = "query"
    /\ IF m.kind = "ResultMessage"
       THEN PutAndReturn(agent_id, "message", m, ResultOfMessage(agent_id, m))
       ELSE /\ Len(workers[agent_id].collected_messages) < MaxMessages
            /\ workers' = [workers EXCEPT ![agent_id].collected_messages =
                               Append(@, PyStr(m))]
            /\ UNCHANGED runQueue
    /\ UNCHANGED <<opc, drained, results>>

\* query() is exhausted without a ResultMessage
run_single_agent_end(agent_id) ==
    /\ workers[agent_id].pc = "query"
    /\ PutAndReturn(agent_id, "end", NoMessage,
           AgentResult(agent_id, "success", <<"Task completed">>,
                       "messages", "", workers[agent_id].collected_messages))
    /\ UNCHANGED <<opc, drained, results>>

\* the exception leaves the task without a result being put
run_single_agent_except_mutant(agent_id, e) ==
    /\ workers[agent_id].pc \in {"import", "query"}
    /\ workers' = [workers EXCEPT ![agent_id] =
                      [NoWorker EXCEPT !.pc = "done", !.ended = "Exception"]]
    /\ UNCHANGED <<runQueue, opc, drained, results>>

\* except Exception
run_single_agent_except(agent_id, e) ==
    /\ workers[agent_id].pc \in {"import", "query"}
    /\ PutAndReturn(agent_id, "Exception", NoMessage,
           AgentResult(agent_id, "error", <<"Unexpected error: ", e>>,
                       "error_type", e, <<>>))
    /\ UNCHANGED <<opc, drained, results>>

\* the event the runtime yields next: a ResultMessage, or the next text of its stream
NextMessages(agent_id) ==
    {m \in Messages :
        m.kind = "TextMessage" =>
            m.result = TextStream[Len(workers[agent_id].collected_messages) + 1]}

run_single_agent(agent_id) ==
    \/ run_single_agent_import(agent_id)
    \/ \E m \in NextMessages(agent_id) : run_single_agent_message(agent_id, m)
    \/ run_single_agent_end(agent_id)
    \/ \E e \in ExcTypes : run_single_agent_except(agent_id, e)

(***************************************************************************)
(* Dispatcher: orchestrate_agents and run_async                            *)
(***************************************************************************)
RECURSIVE Insert(_, _)
Insert(sorted, r) ==
    IF sorted = <<>> THEN <<r>>
    ELSE IF sorted[Len(sorted)].agent_id <= r.agent_id THEN Append(sorted, r)
    ELSE Append(Insert(SubSeq(sorted, 1, Len(sorted) - 1), r), sorted[Len(sorted)])

\* list.sort(key=lambda r: r.agent_id): a stable sort
\* a sort that is left out
SortByIdMutant(q) == q

RECURSIVE SortById(_)
SortById(q) ==
    IF q = <<>> THEN <<>>
    ELSE Insert(SortById(SubSeq(q, 1, Len(q) - 1)), q[Len(q)])

\* a fresh queue, then one task per agent, up to the await of gather
orchestrate_agents_launch ==
    /\ opc = "start"
    /\ runQueue' = <<>>
    /\ workers' = [i \in AgentIds |->
                     IF i <= task.agent_count
                     THEN [NoWorker EXCEPT !.pc = "import"] ELSE NoWorker]
    /\ opc' = "gather"
    /\ UNCHANGED <<drained, results>>

\* gather returns when every task is done; the queue is emptied and sorted
orchestrate_agents_return ==
    /\ opc = "gather"
    /\ \A i \in 1..task.agent_count : workers[i].pc = "done"
    /\ drained' = runQueue
    /\ results' = SortById(runQueue)
    /\ runQueue' = <<>>
    /\ opc' = "done"
    /\ UNCHANGED workers

\* run_async raises before the coroutine runs (no event loop can be made)
run_async_raise ==
    /\ opc = "start"
    /\ opc' = "failed"
    /\ UNCHANGED <<runQueue, drained, results, workers>>

(***************************************************************************)
(* Events and their wire formats                                           *)
(***************************************************************************)
\* a JSON object: the keys it has and their values
Obj(keys, type, n, p, data, err) ==
    [keys |-> keys, type |-> type, agent_count |-> n, prompt |-> p, data |-> data,
     error |-> err]
\* prompt[:100]
Preview(p) == SubSeq(p, 1, IF Len(p) < 100 THEN Len(p) ELSE 100)
StartEvent(n, p)    == Obj({"type", "agent_count", "prompt"}, "start", n, Preview(p), NoResult, "")
AgentResultEvent(r) == Obj({"type", "data"}, "agent_result", 0, <<>>, r, "")
CompleteEvent(n)    == Obj({"type", "total_agents"}, "complete", n, <<>>, NoResult, "")
ErrorEvent(e)       == Obj({"type", "error"}, "error", 0, <<>>, NoResult, e)
\* json.dumps({'error': ...}) of the Relay
RelayError(e)       == Obj({"error"}, "", 0, <<>>, NoResult, e)

\* json.dumps(obj) + "\n"
JsonLine(obj)  == [text |-> obj, end |-> "\n"]
\* f"data: {line}\n\n"
SseFrame(text) == [prefix |-> "data: ", text |-> text, end |-> "\n\n"]

\* a request the model can follow to its end
Runnable(v) == v.status = 0 => v.agent_count <= MaxWorkers

(***************************************************************************)
(* Dispatcher: orchestrate (POST /api/orchestrate)                         *)
(***************************************************************************)
orchestrate(data) ==
    /\ dpc = "idle"
    /\ LET v == orchestrate_validate(data)
       IN  IF v.status # 0
           THEN /\ dResp' = ErrorResp(v.status, v.error)
                /\ dpc' = "done"
                /\ UNCHANGED <<task, opc>>
           ELSE IF ~apiKey
           THEN /\ dResp' = ErrorResp(500, "ANTHROPIC_API_KEY not configured")
                /\ dpc' = "done"
                /\ UNCHANGED <<task, opc>>
           ELSE /\ task' = v
                /\ dpc' = "run"
                /\ opc' = "start"
                /\ UNCHANGED dResp
    /\ UNCHANGED <<runQueue, drained, results, workers, streamVars>>

\* run_async returned the results
orchestrate_return ==
    /\ dpc = "run" /\ opc = "done"
    /\ dResp' = Resp(200, "completed", "", task.prompt, task.agent_count, results)
    /\ dpc' = "done"
    /\ UNCHANGED task

\* except Exception around run_async
orchestrate_except ==
    /\ dpc = "run" /\ opc = "failed"
    /\ dResp' = Resp(500, "failed", "Orchestration failed", <<>>, 0, <<>>)
    /\ dpc' = "done"
    /\ UNCHANGED task

(***************************************************************************)
(* Dispatcher: orchestrate_stream (POST /api/orchestrate/stream)           *)
(***************************************************************************)
orchestrate_stream(data) ==
    /\ dpc = "idle"
    /\ LET v == orchestrate_stream_validate(data)
       IN  IF v.status # 0
           THEN /\ dResp' = ErrorResp(v.status, v.error)
                /\ dpc' = "done"
                /\ UNCHANGED <<task, gpc>>
           ELSE /\ task' = v
                /\ dResp' = Resp(200, "stream", "", <<>>, 0, <<>>)
                /\ dpc' = "stream"
                /\ gpc' = "begin"
    /\ UNCHANGED <<events, streamQueue, completed, threadAlive, runVars>>

\* generate(): a fresh queue, the thread is started, the start event is yielded
generate_start ==
    /\ gpc = "begin"
    /\ streamQueue' = <<>>
    /\ threadAlive' = TRUE
    /\ opc' = "start"
    /\ events' = Append(events, JsonLine(StartEvent(task.agent_count, task.prompt)))
    /\ completed' = 0
    /\ gpc' = "poll"
    /\ UNCHANGED dpc

\* generate(): thread.start() raises; except Exception yields the error event
generate_except ==
    /\ gpc = "begin"
    /\ events' = Append(events, JsonLine(ErrorEvent("RuntimeError")))
    /\ gpc' = "done"
    /\ dpc' = "done"
    /\ UNCHANGED <<streamQueue, completed, threadAlive, opc>>

\* generate(): one iteration of the polling loop; results_queue.get(timeout=1)
\* gives a result or raises Empty, which the loop passes over
generate_poll ==
    /\ gpc = "poll"
    /\ completed < task.agent_count /\ threadAlive
    /\ IF streamQueue # <<>>
       THEN /\ events' = Append(events, JsonLine(AgentResultEvent(Head(streamQueue))))
            /\ streamQueue' = Tail(streamQueue)
            /\ completed' = completed + 1
       ELSE UNCHANGED <<events, streamQueue, completed>>
    /\ UNCHANGED <<gpc, threadAlive, opc, dpc>>

\* generate(): the loop condition fails
generate_poll_exit ==
    /\ gpc = "poll"
    /\ ~(completed < task.agent_count /\ threadAlive)
    /\ gpc' = "join"
    /\ UNCHANGED <<events, streamQueue, completed, threadAlive, opc, dpc>>

\* generate(): thread.join(timeout=60) returns when the thread has ended or
\* the timeout has run out
generate_join ==
    /\ gpc = "join"
    /\ \E timedOut \in BOOLEAN : ~threadAlive \/ timedOut
    /\ gpc' = "drain"
    /\ UNCHANGED <<events, streamQueue, completed, threadAlive, opc, dpc>>

\* generate(): the drain loop, then the complete event
generate_drain ==
    /\ gpc = "drain"
    /\ IF streamQueue # <<>>
       THEN /\ events' = Append(events, JsonLine(AgentResultEvent(Head(streamQueue))))
            /\ streamQueue' = Tail(streamQueue)
            /\ UNCHANGED gpc
       ELSE /\ gpc' = "complete"
            /\ UNCHANGED <<events, streamQueue>>
    /\ UNCHANGED <<completed, threadAlive, opc, dpc>>

\* the complete event is yielded without the generator ending
generate_complete_mutant ==
    /\ gpc = "complete"
    /\ events' = Append(events, JsonLine(CompleteEvent(task.agent_count)))
    /\ UNCHANGED <<gpc, dpc, streamQueue, completed, threadAlive, opc>>

generate_complete ==
    /\ gpc = "complete"
    /\ events' = Append(events, JsonLine(CompleteEvent(task.agent_count)))
    /\ gpc' = "done"
    /\ dpc' = "done"
    /\ UNCHANGED <<streamQueue, completed, threadAlive, opc>>

\* run_agents: the thread ends when run_async has returned or raised
run_agents_exit ==
    /\ threadAlive
    /\ opc \in {"done", "failed"}
    /\ threadAlive' = FALSE
    /\ UNCHANGED <<gpc, events, streamQueue, completed, opc, dpc>>

(***************************************************************************)
(* Relay: submit_prompt (POST /api/submit)                                 *)
(***************************************************************************)
\* json={"prompt": prompt, "agent_count": agent_count}
Forwarded(v) == Body("dict", StrV(v.prompt), IntV(v.agent_count))

submit_prompt(data) ==
    /\ rpc = "idle"
    /\ LET v == submit_prompt_validate(data)
       IN  IF v.status # 0
           THEN /\ relayResp' = ErrorResp(v.status, v.error)
                /\ rpc' = "done"
                /\ UNCHANGED <<fwd, backendCalls>>
           ELSE /\ fwd' = Forwarded(v)
                /\ backendCalls' = backendCalls + 1
                /\ rpc' = "calling"
                /\ UNCHANGED relayResp
    /\ UNCHANGED <<relayOut, relayRead, relayFault>>

\* response.json(): the fields of the body, without the status line
ResponseJson(response) ==
    [status |-> response.status, error |-> response.error, prompt |-> response.prompt,
     agent_count |-> response.agent_count, results |-> response.results]
\* (jsonify(body), code): a response with that body and that status code
Jsonify(body, code) ==
    Resp(code, body.status, body.error, body.prompt, body.agent_count, body.results)

\* the status code of the Dispatcher's answer is dropped: jsonify answers 200
submit_prompt_return_mutant ==
    /\ rpc = "calling" /\ req.handler = "submit_prompt"
    /\ dpc = "done"
    /\ relayResp' = Jsonify(ResponseJson(dResp), 200)
    /\ rpc' = "done"
    /\ UNCHANGED <<fwd, backendCalls, relayOut, relayRead, relayFault>>

\* return jsonify(response.json()), response.status_code
submit_prompt_return ==
    /\ rpc = "calling" /\ req.handler = "submit_prompt"
    /\ dpc = "done"
    /\ relayResp' = Jsonify(ResponseJson(dResp), dResp.code)
    /\ rpc' = "done"
    /\ UNCHANGED <<fwd, backendCalls, relayOut, relayRead, relayFault>>

\* only the last, generic except clause
submit_prompt_except_mutant(e) ==
    /\ rpc = "calling" /\ req.handler = "submit_prompt"
    /\ e = "JSONDecodeError" => dpc = "done"
    /\ e = "ConnectTimeout" => dpc = "idle"
    /\ e = "ReadTimeout" => dpc # "idle"
    /\ relayResp' = ErrorResp(500, "Unexpected error")
    /\ relayFault' = e
    /\ rpc' = "done"
    /\ UNCHANGED <<fwd, backendCalls, relayOut, relayRead>>

\* the except clauses around requests.post, in their order
submit_prompt_except(e) ==
    /\ rpc = "calling" /\ req.handler = "submit_prompt"
    /\ e = "JSONDecodeError" => dpc = "done"
    /\ e = "ConnectTimeout" => dpc = "idle"
    /\ e = "ReadTimeout" => dpc # "idle"
    /\ relayResp' = IF IsInstance(e, "Timeout")
                    THEN ErrorResp(504, "Request timed out")
                    ELSE IF IsInstance(e, "ConnectionError")
                    THEN ErrorResp(503, "Could not connect to backend orchestrator")
                    ELSE ErrorResp(500, "Unexpected error")
    /\ relayFault' = e
    /\ rpc' = "done"
    /\ UNCHANGED <<fwd, backendCalls, relayOut, relayRead>>

(***************************************************************************)
(* Relay: submit_prompt_stream (POST /api/submit/stream)                   *)
(***************************************************************************)
submit_prompt_stream(data) ==
    /\ rpc = "idle"
    /\ LET v == submit_prompt_stream_validate(data)
       IN  IF v.status # 0
           THEN /\ relayResp' = ErrorResp(v.status, v.error)
                /\ rpc' = "done"
                /\ UNCHANGED <<fwd, backendCalls>>
           ELSE /\ fwd' = Forwarded(v)
                /\ backendCalls' = backendCalls + 1
                /\ relayResp' = Resp(200, "stream", "", <<>>, 0, <<>>)
                /\ rpc' = "calling"
    /\ UNCHANGED <<relayOut, relayRead, relayFault>>

\* the first line of the Dispatcher's response is read but not yielded
relay_generate_line_mutant ==
    /\ rpc = "calling" /\ req.handler = "submit_prompt_stream"
    /\ relayRead < Len(events)
    /\ LET line == events[relayRead + 1].text
       IN  relayOut' = IF line.keys # {} /\ relayRead > 0
                       THEN Append(relayOut, SseFrame(line))
                       ELSE relayOut
    /\ relayRead' = relayRead + 1
    /\ UNCHANGED <<rpc, fwd, backendCalls, relayResp, relayFault>>

\* generate(): one iteration over response.iter_lines()
relay_generate_line ==
    /\ rpc = "calling" /\ req.handler = "submit_prompt_stream"
    /\ relayRead < Len(events)
    /\ LET line == events[relayRead + 1].text
       IN  relayOut' = IF line.keys # {} THEN Append(relayOut, SseFrame(line))
                       ELSE relayOut
    /\ relayRead' = relayRead + 1
    /\ UNCHANGED <<rpc, fwd, backendCalls, relayResp, relayFault>>

\* generate(): the Dispatcher's response has ended and every line was read
relay_generate_end ==
    /\ rpc = "calling" /\ req.handler = "submit_prompt_stream"
    /\ dpc = "done"
    /\ relayRead = Len(events)
    /\ rpc' = "done"
    /\ UNCHANGED <<fwd, backendCalls, relayResp, relayOut, relayRead, relayFault>>

\* generate(): the except clauses, each yields one frame
relay_generate_except(e) ==
    /\ rpc = "calling" /\ req.handler = "submit_prompt_stream"
    /\ e # "JSONDecodeError"
    /\ e = "ConnectTimeout" => dpc = "idle"
    /\ e = "ReadTimeout" => dpc # "idle"
    /\ relayOut' = Append(relayOut,
           SseFrame(RelayError(IF IsInstance(e, "Timeout") THEN "Request timed out"
                               ELSE IF IsInstance(e, "ConnectionError")
                               THEN "Could not connect to backend"
                               ELSE e)))
    /\ relayFault' = e
    /\ rpc' = "done"
    /\ UNCHANGED <<fwd, backendCalls, relayResp, relayRead>>

(***************************************************************************)
(* The system                                                              *)
(***************************************************************************)
\* a client posts to one of the four endpoints
ClientOrchestrate ==
    \E d \in Bodies :
        /\ req = NoReq
        /\ Runnable(orchestrate_validate(d))
        /\ req' = [handler |-> "orchestrate", data |-> d]
        /\ orchestrate(d)
        /\ UNCHANGED <<otherVars, apiKey, relayVars>>

ClientOrchestrateStream ==
    \E d \in Bodies :
        /\ req = NoReq
        /\ Runnable(orchestrate_stream_validate(d))
        /\ req' = [handler |-> "orchestrate_stream", data |-> d]
        /\ orchestrate_stream(d)
        /\ UNCHANGED <<otherVars, apiKey, relayVars>>

ClientSubmit ==
    \E d \in Bodies :
        /\ req = NoReq
        /\ Runnable(submit_prompt_validate(d))
        /\ req' = [handler |-> "submit_prompt", data |-> d]
        /\ submit_prompt(d)
        /\ UNCHANGED <<otherVars, apiKey, dispVars, streamVars, runVars>>

ClientSubmitStream ==
    \E d \in Bodies :
        /\ req = NoReq
        /\ Runnable(submit_prompt_stream_validate(d))
        /\ req' = [handler |-> "submit_prompt_stream", data |-> d]
        /\ submit_prompt_stream(d)
        /\ UNCHANGED <<otherVars, apiKey, dispVars, streamVars, runVars>>

\* the Relay's requests.post reaches the Dispatcher
RelayOrchestrate ==
    /\ rpc = "calling" /\ req.handler = "submit_prompt"
    /\ orchestrate(fwd)
    /\ UNCHANGED <<otherVars, apiKey, req, relayVars>>

RelayOrchestrateStream ==
    /\ rpc = "calling" /\ req.handler = "submit_prompt_stream"
    /\ orchestrate_stream(fwd)
    /\ UNCHANGED <<otherVars, apiKey, req, relayVars>>

RelayReturn ==
    /\ submit_prompt_return
    /\ UNCHANGED <<otherVars, apiKey, req, dispVars, streamVars, runVars>>

RelayExcept ==
    /\ \E e \in RequestExcs : submit_prompt_except(e)
    /\ UNCHANGED <<otherVars, apiKey, req, dispVars, streamVars, runVars>>

RelayLine ==
    /\ relay_generate_line
    /\ UNCHANGED <<otherVars, apiKey, req, dispVars, streamVars, runVars>>

RelayEnd ==
    /\ relay_generate_end
    /\ UNCHANGED <<otherVars, apiKey, req, dispVars, streamVars, runVars>>

RelayStreamExcept ==
    /\ \E e \in RequestExcs : relay_generate_except(e)
    /\ UNCHANGED <<otherVars, apiKey, req, dispVars, streamVars, runVars>>

OrchestrateReturn ==
    /\ orchestrate_return
    /\ UNCHANGED <<otherVars, apiKey, req, relayVars, streamVars, runVars>>

OrchestrateExcept ==
    /\ orchestrate_except
    /\ UNCHANGED <<otherVars, apiKey, req, relayVars, streamVars, runVars>>

Launch ==
    /\ orchestrate_agents_launch
    /\ UNCHANGED <<otherVars, apiKey, req, relayVars, dispVars, streamVars>>

Gather ==
    /\ orchestrate_agents_return
    /\ UNCHANGED <<otherVars, apiKey, req, relayVars, dispVars, streamVars>>

RunRaise ==
    /\ run_async_raise
    /\ UNCHANGED <<otherVars, apiKey, req, relayVars, dispVars, streamVars>>

Worker ==
    /\ \E i \in AgentIds : run_single_agent(i)
    /\ UNCHANGED <<otherVars, apiKey, req, relayVars, dispVars, streamVars>>

\* the steps of the Dispatcher's generate()
Producer ==
    /\ \/ generate_start
       \/ generate_except
       \/ generate_poll
       \/ generate_poll_exit
       \/ generate_join
       \/ generate_drain
       \/ generate_complete
    /\ UNCHANGED <<otherVars, apiKey, req, relayVars, task, dResp, runQueue, drained, results, workers>>

ThreadExit ==
    /\ run_agents_exit
    /\ UNCHANGED <<otherVars, apiKey, req, relayVars, task, dResp, runQueue, drained, results, workers>>

Next ==
    \/ ClientOrchestrate
    \/ ClientOrchestrateStream
    \/ ClientSubmit
    \/ ClientSubmitStream
    \/ RelayOrchestrate
    \/ RelayOrchestrateStream
    \/ RelayReturn
    \/ RelayExcept
    \/ RelayLine
    \/ RelayEnd
    \/ RelayStreamExcept
    \/ OrchestrateReturn
    \/ OrchestrateExcept
    \/ Launch
    \/ Gather
    \/ RunRaise
    \/ Worker
    \/ Producer
    \/ ThreadExit

Spec == Init /\ [][Next]_vars

\* the Dispatcher's own threads are scheduled; the agent runtime the workers
\* await and the network owe no progress
FairSpec == Spec /\ WF_vars(Producer) /\ WF_vars(ThreadExit) /\ WF_vars(Launch)
                 /\ WF_vars(Gather)

(***************************************************************************)
(* Two runs side by side: while the request above is served, a second      *)
(* request reaches orchestrate_agents in another thread of the Dispatcher. *)
(* Its run executes the same code on its own locals.                       *)
(***************************************************************************)
\* what the runtime answers to the second run's prompt: a ResultMessage with a
\* payload of its own, after one text at most
OtherPayloads == {"q"}
OtherMessages(agent_id) ==
    {ResultMessage(st, p) : st \in Subtypes, p \in OtherPayloads}
    \cup (IF otherWorkers[agent_id].collected_messages = <<>>
          THEN {TextMessage(TextStream[1])} ELSE {})

\* the queue is one object of the module, shared by every run
other_PutAndReturn_mutant(agent_id, ended, m, result) ==
    /\ runQueue' = Append(runQueue, result)
    /\ otherWorkers' = [otherWorkers EXCEPT ![agent_id] =
                           [pc |-> "done", collected_messages |-> <<>>, ended |-> ended,
                            message |-> m, result |-> result]]
    /\ UNCHANGED otherQueue

\* results_queue.put(result); return result, on the queue passed to the task
other_PutAndReturn(agent_id, ended, m, result) ==
    /\ otherQueue' = Append(otherQueue, result)
    /\ otherWorkers' = [otherWorkers EXCEPT ![agent_id] =
                           [pc |-> "done", collected_messages |-> <<>>, ended |-> ended,
                            message |-> m, result |-> result]]
    /\ UNCHANGED runQueue

other_run_single_agent_import(agent_id) ==
    /\ otherWorkers[agent_id].pc = "import"
    /\ \/ /\ otherWorkers' = [otherWorkers EXCEPT ![agent_id].pc = "query"]
          /\ UNCHANGED <<otherQueue, runQueue>>
       \/ other_PutAndReturn(agent_id, "ImportError", NoMessage,
              AgentResult(agent_id, "error",
                          <<"Claude Agent SDK not available: ", "ImportError">>,
                          "error_type", "import_error", <<>>))

other_run_single_agent_message(agent_id, m) ==
    /\ otherWorkers[agent_id].pc = "query"
    /\ IF m.kind = "ResultMessage"
       THEN other_PutAndReturn(agent_id, "message", m, ResultOfMessage(agent_id, m))
       ELSE /\ Len(otherWorkers[agent_id].collected_messages) < MaxMessages
            /\ otherWorkers' = [otherWorkers EXCEPT ![agent_id].collected_messages =
                                    Append(@, PyStr(m))]
            /\ UNCHANGED <<otherQueue, runQueue>>

other_run_single_agent_end(agent_id) ==
    /\ otherWorkers[agent_id].pc = "query"
    /\ other_PutAndReturn(agent_id, "end", NoMessage,
           AgentResult(agent_id, "success", <<"Task completed">>,
                       "messages", "", otherWorkers[agent_id].collected_messages))

other_run_single_agent_except(agent_id, e) ==
    /\ otherWorkers[agent_id].pc \in {"import", "query"}
    /\ other_PutAndReturn(agent_id, "Exception", NoMessage,
           AgentResult(agent_id, "error", <<"Unexpected error: ", e>>,
                       "error_type", e, <<>>))

other_run_single_agent(agent_id) ==
    \/ other_run_single_agent_import(agent_id)
    \/ \E m \in OtherMessages(agent_id) : other_run_single_agent_message(agent_id, m)
    \/ other_run_single_agent_end(agent_id)
    \/ \E e \in ExcTypes : other_run_single_agent_except(agent_id, e)

\* orchestrate_agents(prompt, agent_count): a fresh queue, one task per agent
other_orchestrate_agents_launch(agent_count) ==
    /\ otherOpc = "idle"
    /\ otherCount' = agent_count
    /\ otherQueue' = <<>>
    /\ otherWorkers' = [i \in AgentIds |->
                          IF i <= agent_count
                          THEN [NoWorker EXCEPT !.pc = "import"] ELSE NoWorker]
    /\ otherOpc' = "gather"
    /\ UNCHANGED <<otherDrained, otherResults>>

other_orchestrate_agents_return ==
    /\ otherOpc = "gather"
    /\ \A i \in 1..otherCount : otherWorkers[i].pc = "done"
    /\ otherDrained' = otherQueue
    /\ otherResults' = SortById(otherQueue)
    /\ otherQueue' = <<>>
    /\ otherOpc' = "done"
    /\ UNCHANGED <<otherCount, otherWorkers>>

\* the first request: a valid body posted to one of the Dispatcher's endpoints
ConcurrentBodies == {Body("dict", StrV(<<"a">>), IntV(n)) : n \in 1..MaxConcurrent}

ConcurrentOrchestrate ==
    \E d \in ConcurrentBodies :
        /\ req = NoReq
        /\ req' = [handler |-> "orchestrate", data |-> d]
        /\ orchestrate(d)
        /\ UNCHANGED <<otherVars, apiKey, relayVars>>

ConcurrentOrchestrateStream ==
    \E d \in ConcurrentBodies :
        /\ req = NoReq
        /\ req' = [handler |-> "orchestrate_stream", data |-> d]
        /\ orchestrate_stream(d)
        /\ UNCHANGED <<otherVars, apiKey, relayVars>>

OtherLaunch ==
    /\ \E n \in 1..MaxConcurrent : other_orchestrate_agents_launch(n)
    /\ UNCHANGED <<apiKey, req, relayVars, dispVars, streamVars, runVars>>

OtherWorker ==
    /\ \E i \in AgentIds : other_run_single_agent(i)
    /\ UNCHANGED <<apiKey, req, relayVars, dispVars, streamVars, opc, drained, results,
                   workers, otherOpc, otherCount, otherDrained, otherResults>>

OtherGather ==
    /\ other_orchestrate_agents_return
    /\ UNCHANGED <<apiKey, req, relayVars, dispVars, streamVars, runVars>>

ConcurrentNext ==
    \/ ConcurrentOrchestrate
    \/ ConcurrentOrchestrateStream
    \/ OrchestrateReturn
    \/ Launch
    \/ Gather
    \/ Worker
    \/ Producer
    \/ ThreadExit
    \/ OtherLaunch
    \/ OtherWorker
    \/ OtherGather

ConcurrentSpec == Init /\ [][ConcurrentNext]_vars

(***************************************************************************)
(* Properties                                                              *)
(***************************************************************************)
Launched == {i \in AgentIds : workers[i].pc # "none"}
RelayHandlers == {"submit_prompt", "submit_prompt_stream"}
\* the response of the handler the client reached
HandlerResp == IF req.handler \in RelayHandlers THEN relayResp ELSE dResp
EventType(k) == events[k].text.type
AgentResultEvents == {k \in 1..Len(events) : EventType(k) = "agent_result"}

\* C1: orchestrate_agents returns only when every one of the N workers has a
\* terminal status, and returns exactly N results in ascending agent_id order
\* with no agent_id twice, whatever the order the workers completed in; the
\* synchronous endpoint answers with that list.
C1_SyncRunReturnsAllSorted ==
    opc = "done" =>
        /\ task.agent_count \in 1..MaxAgentCount
        /\ \A i \in 1..task.agent_count :
              /\ workers[i].pc = "done"
              /\ workers[i].result.status \in {"success", "error", "unknown"}
        /\ Len(results) = task.agent_count
        /\ \A i, j \in 1..Len(results) : i < j => results[i].agent_id < results[j].agent_id
        /\ dResp.status = "completed" =>
              dResp.results = results /\ Len(dResp.results) = dResp.agent_count

\* a synchronous run has answered although worker 2 completed before worker 1
C1_Witness ==
    /\ req.handler = "orchestrate" /\ dResp.status = "completed"
    /\ Len(drained) >= 2 /\ drained[1].agent_id > drained[2].agent_id
    /\ results[1].agent_id = 1

\* C2: when the stream producer has drained its queue and is about to yield
\* complete, every worker that has recorded its result has exactly one
\* agent_result event carrying that result among the yielded events.
C2_StreamEmitsRecordedResults ==
    gpc = "complete" =>
        \A i \in 1..task.agent_count :
            workers[i].pc = "done" =>
                Cardinality({k \in AgentResultEvents :
                                events[k].text.data = workers[i].result}) = 1

\* an agent_count the request carries that is not an integer of 1..10
BadCount(c) == c.k # "missing" /\ (c.k # "int" \/ c.n < 1 \/ c.n > 10)
ValidPrompt(p) == p.k = "str" /\ Strip(p.s) # <<>>

\* C3: a request whose agent_count is outside [1,10] or is not an integer is
\* answered 400 by the handler it reaches, no worker is launched and no
\* backend call is made (stated for a valid prompt and a configured
\* credential, so that nothing else decides the answer).
C3_BadCountRejected ==
    (/\ apiKey
     /\ req.handler # "none" /\ req.data.k = "dict"
     /\ ValidPrompt(req.data.prompt)
     /\ BadCount(req.data.agent_count))
    => (HandlerResp.code = 400 /\ Launched = {} /\ backendCalls = 0)

StartEmitted == Len(events) >= 1 /\ EventType(1) = "start"
StreamEnded  == Len(events) >= 1 /\ EventType(Len(events)) \in {"complete", "error"}

\* C4: in every streamed run, once start is yielded, complete or error is
\* eventually yielded, also when a worker never reaches a terminal state.
C4_StreamEventuallyCompletes == StartEmitted ~> StreamEnded

\* C5: the events of a streamed run are one start, then at most agent_count
\* agent_result events with no agent_id twice, then one complete and nothing
\* after it, or they are cut short by one error with nothing after it; no
\* agent_result comes before start or after complete, and complete and error
\* never both occur.
C5_StreamWellFormed ==
    LET n == Len(events)
    IN  /\ \A k \in 1..n :
              /\ EventType(k) \in {"start", "agent_result", "complete", "error"}
              /\ EventType(k) = "start" => k = 1
              /\ EventType(k) = "agent_result" => k > 1 /\ EventType(1) = "start"
              /\ EventType(k) = "complete" => k = n /\ k > 1 /\ EventType(1) = "start"
              /\ EventType(k) = "error" => k = n
        /\ Cardinality(AgentResultEvents) <= task.agent_count
        /\ \A k, l \in AgentResultEvents :
              k # l => events[k].text.data.agent_id # events[l].text.data.agent_id
        /\ gpc = "done" <=> (n >= 1 /\ EventType(n) \in {"complete", "error"})

\* a streamed run has ended with start first and complete last
C5_Witness ==
    /\ gpc = "done" /\ Len(events) >= 2
    /\ EventType(1) = "start" /\ EventType(Len(events)) = "complete"
    /\ \A i \in 1..task.agent_count : workers[i].pc = "done"

\* C6: with no ANTHROPIC_API_KEY no Dispatcher run launches a worker, through
\* either endpoint.
C6_NoKeyNoWorker == ~apiKey => Launched = {}

\* C7: when a run has returned, it has N results; a worker that failed on an
\* ImportError or another exception has one result with status error, and every
\* other worker's result is the one its own events give, whatever happened to
\* the other workers.
C7_WorkerFailureIsolated ==
    opc = "done" =>
        /\ Len(results) = task.agent_count
        /\ \A i \in 1..task.agent_count :
              /\ results[i].agent_id = i
              /\ results[i] = workers[i].result
              /\ workers[i].ended \in {"ImportError", "Exception"} =>
                    results[i].status = "error"
              /\ workers[i].ended = "message" =>
                    results[i] = ResultOfMessage(i, workers[i].message)
              /\ workers[i].ended = "end" =>
                    results[i].status = "success" /\ results[i].details.key = "messages"

\* a run has returned in which one worker failed and another succeeded
C7_Witness ==
    /\ opc = "done" /\ Len(results) = task.agent_count
    /\ \E i, j \in 1..task.agent_count :
          /\ workers[i].ended \in {"ImportError", "Exception"}
          /\ workers[j].ended = "message" /\ results[j].status = "success"

\* C8: when an exception ends the Relay's stream, the last frame it yielded
\* carries an event tagged with type error.
C8_RelayFaultEventTyped ==
    (req.handler = "submit_prompt_stream" /\ relayFault # "") =>
        /\ Len(relayOut) >= 1
        /\ "type" \in relayOut[Len(relayOut)].text.keys
        /\ relayOut[Len(relayOut)].text.type = "error"

\* C9: the Relay's non-streaming path calls the Dispatcher exactly once for a
\* validated request and never again; a connection failure is answered 503
\* "could not connect", a timeout 504 "timed out", neither of them 500.
C9_RelayNoRetryDistinctErrors ==
    /\ backendCalls <= 1
    /\ (req.handler = "submit_prompt" /\ submit_prompt_validate(req.data).status = 0)
          => backendCalls = 1
    /\ (req.handler = "submit_prompt" /\ relayFault = "ConnectionError")
          => /\ relayResp.code = 503
             /\ relayResp.error = "Could not connect to backend orchestrator"
    /\ (req.handler = "submit_prompt" /\ relayFault \in {"ConnectTimeout", "ReadTimeout"})
          => /\ relayResp.code = 504
             /\ relayResp.error = "Request timed out"

\* the Relay has answered 503 after a connection failure of its one call
C9_Witness ==
    /\ req.handler = "submit_prompt" /\ rpc = "done"
    /\ relayFault = "ConnectionError" /\ relayResp.code = 503
    /\ backendCalls = 1

\* C10: on every request body the Relay's validators and the Dispatcher's give
\* the same verdict with the same error; the Relay makes no backend call for a
\* request it rejects; and the body the Relay forwards passes the Dispatcher's
\* validation unchanged.
C10_SameValidation ==
    /\ req.handler # "none" =>
          /\ submit_prompt_validate(req.data) = orchestrate_validate(req.data)
          /\ submit_prompt_stream_validate(req.data) = orchestrate_stream_validate(req.data)
    /\ (req.handler = "submit_prompt" /\ submit_prompt_validate(req.data).status # 0)
          => backendCalls = 0 /\ dpc = "idle"
    /\ (req.handler = "submit_prompt_stream"
        /\ submit_prompt_stream_validate(req.data).status # 0)
          => backendCalls = 0 /\ dpc = "idle"
    /\ backendCalls > 0 =>
          /\ orchestrate_validate(fwd) = Accept(fwd.prompt.s, fwd.agent_count.n)
          /\ orchestrate_stream_validate(fwd) = Accept(fwd.prompt.s, fwd.agent_count.n)
          /\ dpc # "idle" => dResp.code # 400
          /\ dpc \in {"run", "stream"} => task = Accept(fwd.prompt.s, fwd.agent_count.n)

\* the Dispatcher has accepted a body the Relay forwarded after trimming the
\* prompt and coercing the count
C10_Witness ==
    /\ req.handler = "submit_prompt"
    /\ req.data.prompt = StrV(<<" ", "a">>) /\ req.data.agent_count = Missing
    /\ fwd = Body("dict", StrV(<<"a">>), IntV(1))
    /\ dpc = "done" /\ dResp.code = 200

\* the first n texts of a worker's event stream as the task collected them
CollectedTexts(n) == [k \in 1..n |-> PyStr(TextMessage(TextStream[k]))]

\* one step of the system as worker i sees it
C11_Step(i) ==
    LET w  == workers[i]
        w2 == workers'[i]
        m  == w2.message
        r  == w2.result
    IN  /\ (w.pc = "query" /\ w2.pc = "query" /\ w2 # w) =>
              /\ w2.collected_messages = CollectedTexts(Len(w.collected_messages) + 1)
              /\ SubSeq(w2.collected_messages, 1, Len(w.collected_messages))
                     = w.collected_messages
              /\ r = NoResult
        /\ (w.pc = "query" /\ w2.pc = "done" /\ w2.ended = "message") =>
              /\ m.kind = "ResultMessage"
              /\ r.agent_id = i
              /\ m.subtype = "success" =>
                     /\ r.status = "success"
                     /\ r.details = [key |-> "result", value |-> m.result,
                                     messages |-> <<>>]
              /\ m.subtype = "error" =>
                     /\ r.status = "error"
                     /\ r.details = [key |-> "error", value |-> m.result,
                                     messages |-> <<>>]
              /\ m.subtype \notin {"success", "error"} =>
                     /\ r.status = "unknown"
                     /\ r.details = [key |-> "subtype", value |-> m.subtype,
                                     messages |-> <<>>]
        /\ (w.pc = "query" /\ w2.pc = "done" /\ w2.ended = "end") =>
              /\ r.agent_id = i
              /\ r.status = "success"
              /\ r.details = [key |-> "messages", value |-> "",
                              messages |-> w.collected_messages]
        /\ w.pc = "done" => w2 = w

\* C11: a worker's result is fixed by the first ResultMessage of its event stream:
\* subtype success gives status success and details {result: payload}, subtype
\* error gives status error and details {error: payload}, any other subtype gives
\* status unknown and details {subtype: value}; a stream that ends without one
\* gives status success and details {messages: the texts collected, in the order
\* they came}; the texts collected before a ResultMessage leave its result alone,
\* and nothing is consumed after it.
C11_ResultByFirstTerminal == [][\A i \in AgentIds : C11_Step(i)]_vars

\* one worker ended its stream after MaxMessages texts, another met a ResultMessage
\* of a subtype that is neither success nor error
C11_Witness ==
    \E i, j \in AgentIds :
        /\ workers[i].pc = "done" /\ workers[i].ended = "end"
        /\ workers[i].result.details.messages = CollectedTexts(MaxMessages)
        /\ MaxMessages >= 2
        /\ workers[j].pc = "done" /\ workers[j].ended = "message"
        /\ workers[j].result.status = "unknown"

\* the body carries no prompt, or one that is not a text with a character other
\* than white space
InvalidPrompt(data) ==
    \/ data.k \in {"none", "emptydict"}
    \/ data.k = "dict" /\ ~ValidPrompt(data.prompt)

\* C13: a request whose prompt is missing, empty, only white space, or not a
\* text at all is answered 400 by the handler it reaches (code 0: not answered
\* yet), no worker is launched and no backend call is made.
C13_InvalidPromptRejected ==
    (req.handler # "none" /\ InvalidPrompt(req.data))
    => (HandlerResp.code \in {0, 400} /\ Launched = {} /\ backendCalls = 0)

\* C14: when the Relay's non-streaming handler has received the Dispatcher's
\* answer to the request it forwarded, its own response has the same status code
\* and the same JSON body, whether the Dispatcher answered 200 completed, 400,
\* or 500 for a missing credential or a failed run.
C14_RelayPassThrough ==
    (req.handler = "submit_prompt" /\ rpc = "done" /\ backendCalls = 1
     /\ relayFault = "")
    => /\ dpc = "done"
       /\ relayResp.code = dResp.code
       /\ relayResp.code \in {200, 400, 500}
       /\ ResponseJson(relayResp) = ResponseJson(dResp)
       /\ relayResp.code = 200 =>
              relayResp.status = "completed" /\ relayResp.results = results

\* the Relay has passed on the Dispatcher's 500 for a run that failed
C14_Witness ==
    /\ req.handler = "submit_prompt" /\ rpc = "done" /\ relayFault = ""
    /\ dResp.code = 500 /\ dResp.status = "failed"
    /\ relayResp = dResp

\* the results worker i has put so far: those waiting in the queue of its run and
\* those the run has taken out of it
PutsOf(i) ==
    LET all == runQueue \o drained
    IN  {k \in 1..Len(all) : all[k].agent_id = i}
PutOf(i) == (runQueue \o drained)[CHOOSE k \in PutsOf(i) : TRUE]

\* a task that is under way has put nothing, a task that returned has put one
\* result, the one it returned
C15_OnePut ==
    \A i \in AgentIds :
        IF workers[i].pc = "done"
        THEN /\ Cardinality(PutsOf(i)) = 1
             /\ PutOf(i) = workers[i].result
             /\ workers[i].ended \in {"message", "end", "ImportError", "Exception"}
        ELSE PutsOf(i) = {}

\* a task that returned consumes nothing more, and its result stays as it is
C15_Kept ==
    \A i \in AgentIds :
        workers[i].pc = "done" =>
            /\ workers'[i] = workers[i]
            /\ Cardinality(PutsOf(i)') = 1
            /\ PutOf(i)' = PutOf(i)

\* C15: every execution of run_single_agent puts exactly one result into the
\* queue of its run, on each of its paths (a ResultMessage, the end of the
\* events, an ImportError, any other exception): none while it runs, one once it
\* returned, never two; after the first ResultMessage it consumes no further
\* event, and the result it put is never replaced.
C15_ExactlyOneResult == []C15_OnePut /\ [][C15_Kept]_vars

\* a run was gathered in which one task ended on an ImportError and another at
\* the end of its events, each with its one result taken from the queue
C15_Witness ==
    /\ opc = "done" /\ Len(drained) = 2 /\ runQueue = <<>>
    /\ \E i, j \in AgentIds :
          /\ workers[i].ended = "ImportError" /\ workers[j].ended = "end"
          /\ Cardinality(PutsOf(i)) = 1 /\ Cardinality(PutsOf(j)) = 1

\* the frames the Relay's generator yielded from lines of the Dispatcher (the
\* frame of an except clause, if one ran, comes last and is its own)
RelayedFrames ==
    IF relayFault = "" THEN relayOut ELSE SubSeq(relayOut, 1, Len(relayOut) - 1)

\* C16: the Relay's streaming path yields, for the lines it has read from the
\* Dispatcher's response, one frame per line, in the order of the lines, each
\* being "data: ", the line as it came, and a blank line; no line is left out,
\* yielded twice or moved; and when the generator ends without a fault it has
\* read every line the Dispatcher yielded.
C16_RelayStreamVerbatim ==
    req.handler = "submit_prompt_stream" =>
        /\ Len(RelayedFrames) = relayRead
        /\ relayRead <= Len(events)
        /\ \A k \in 1..relayRead :
              /\ events[k].text.keys # {}
              /\ RelayedFrames[k] =
                     [prefix |-> "data: ", text |-> events[k].text, end |-> "\n\n"]
        /\ (rpc = "done" /\ relayFault = "" /\ backendCalls = 1) =>
              dpc = "done" /\ relayRead = Len(events)

\* the Relay has ended after passing on the start and the complete line
C16_Witness ==
    /\ req.handler = "submit_prompt_stream" /\ rpc = "done" /\ relayFault = ""
    /\ Len(events) = 2 /\ Len(relayOut) = 2
    /\ relayOut[1].text.type = "start" /\ relayOut[2].text.type = "complete"

\* no body, a prompt that is absent or empty once trimmed, or an agent_count
\* that is not an integer of [1,10]
InvalidRequest(data) ==
    \/ data.k \in {"none", "emptydict"}
    \/ data.k = "dict" /\ data.prompt.k \in {"missing", "str"}
                       /\ Strip(data.prompt.s) = <<>>
    \/ data.k = "dict" /\ BadCount(data.agent_count)

\* C17: with no credential configured, orchestrate answers an invalid request
\* (no body, empty prompt, bad agent_count) with 400, answers 500 "not
\* configured" only to a request that is valid, and launches no worker (stated
\* for bodies whose prompt, if there is one, is a text).
C17_ValidationBeforeCredential ==
    (/\ req.handler = "orchestrate" /\ ~apiKey /\ dpc = "done"
     /\ req.data.k = "dict" => req.data.prompt.k \in {"missing", "str"}) =>
        /\ Launched = {}
        /\ InvalidRequest(req.data) => dResp.code = 400
        /\ dResp = ErrorResp(500, "ANTHROPIC_API_KEY not configured")
              => ~InvalidRequest(req.data)

Elems(q) == {q[k] : k \in 1..Len(q)}
\* what the tasks of each run returned
OwnResults   == {workers[i].result : i \in {j \in AgentIds : workers[j].pc = "done"}}
OtherOwnResults ==
    {otherWorkers[i].result : i \in {j \in AgentIds : otherWorkers[j].pc = "done"}}
\* every result a run holds, returned or emitted
Collected ==
    Elems(runQueue) \cup Elems(drained) \cup Elems(results) \cup Elems(dResp.results)
    \cup Elems(streamQueue) \cup {events[k].text.data : k \in AgentResultEvents}
OtherCollected == Elems(otherQueue) \cup Elems(otherDrained) \cup Elems(otherResults)

\* C12: of two runs under way at the same time, in any interleaving of their
\* tasks, each holds, returns and emits only results of its own tasks, and each
\* task's result is in the queue or list of its own run: nothing a task of one
\* run recorded turns up in the other.
C12_RunsIndependent ==
    /\ Collected \subseteq OwnResults
    /\ OtherCollected \subseteq OtherOwnResults
    /\ Len(runQueue \o drained) = Cardinality({i \in AgentIds : workers[i].pc = "done"})
    /\ Len(otherQueue \o otherDrained)
          = Cardinality({i \in AgentIds : otherWorkers[i].pc = "done"})
    /\ \A r \in Collected : r.details.value \notin OtherPayloads
    /\ \A r \in OtherCollected : r.details.value \notin Payloads

\* both runs are awaiting their tasks, and a task of each has put a result of its
\* own, with the payload of its own run, that is not gathered yet
C12_Witness ==
    /\ opc = "gather" /\ otherOpc = "gather"
    /\ Len(runQueue) = 1 /\ Len(otherQueue) = 1
    /\ runQueue[1].details.value \in Payloads
    /\ otherQueue[1].details.value \in OtherPayloads

====
